---- MODULE Spec2Model ----
(***************************************************************************)
(* Model of the cardio-risk-vision client: the CardiovascularForm          *)
(* component (form state, zod validation through react-hook-form's          *)
(* handleSubmit, the async onSubmit handler that calls the predictor and    *)
(* records the outcome in sessionStorage) and the PredictionHistory         *)
(* component (the history view that loads, reloads and clears the log).     *)
(*                                                                          *)
(* Conventions.  A JavaScript value that may be undefined / null is a       *)
(* sequence of length at most one: << >> is undefined (or null, or NaN),    *)
(* <<v>> is the value v.  Probabilities are kept in thousandths             *)
(* (0.82 is 820).  Date.now() is the variable now, in milliseconds.         *)
(***************************************************************************)
EXTENDS Integers, Sequences, FiniteSets, TLC

\* ------------------------------------------------------------------ bounds

\* Number of submit events one behaviour may contain.
MaxSubmits == 2

\* Date.now() ranges over 0..MaxTime.
MaxTime == 1

\* ------------------------------------------------------- program constants

\* history.slice(0, 10): the number of entries kept.
KeepLast == 10

\* ------------------------------------------------------------------- state

VARIABLES
  form,        \* react-hook-form's field values
  errors,      \* formState.errors: failing field -> message
  prediction,  \* useState<PredictionResponse | null>: << >> or <<result>>
  isLoading,   \* useState(false): the in-flight flag, disables the button
  toast,       \* the last notification shown
  toastCount,  \* how many notifications were shown
  storage,     \* sessionStorage item 'cardio_history'
  history,     \* PredictionHistory's useState<HistoryEntry[]>
  mounted,     \* PredictionHistory's effect has run (listener registered)
  crashed,     \* an exception escaped a React effect: the tree is unmounted
  now,         \* Date.now()
  inv,         \* the invocations of handleSubmit(onSubmit), by submit event
  appended,    \* every entry written since the log was last empty, oldest first
  storageEvents \* how many 'storage' events were dispatched on window

\* ----------------------------------------------------------------- helpers

Min2(a, b) == IF a < b THEN a ELSE b

\* Array.prototype.slice(0, n)
Slice0(s, n) == SubSeq(s, 1, Min2(n, Len(s)))

\* Array.prototype.unshift(e), as the array it leaves
Unshift(s, e) == <<e>> \o s

\* ------------------------------------------------------------- form schema

NumFields == {"age", "height", "weight", "ap_hi", "ap_lo"}
SelectFields == {"gender", "cholesterol", "gluc", "smoke", "alco", "active"}
Fields == NumFields \cup SelectFields

\* z.number().min(lo, minMsg).max(hi, maxMsg) and z.enum(options)
formSchema ==
  [ age    |-> [min |-> 1,  minMsg |-> "Age must be at least 1 day",
                max |-> 50000, maxMsg |-> "Age seems unrealistic"],
    height |-> [min |-> 50, minMsg |-> "Height must be at least 50 cm",
                max |-> 250, maxMsg |-> "Height must be less than 250 cm"],
    weight |-> [min |-> 10, minMsg |-> "Weight must be at least 10 kg",
                max |-> 300, maxMsg |-> "Weight must be less than 300 kg"],
    ap_hi  |-> [min |-> 70, minMsg |-> "Systolic pressure must be at least 70",
                max |-> 250, maxMsg |-> "Systolic pressure seems too high"],
    ap_lo  |-> [min |-> 40, minMsg |-> "Diastolic pressure must be at least 40",
                max |-> 150, maxMsg |-> "Diastolic pressure seems too high"],
    gender      |-> [options |-> {"1", "2"}],
    cholesterol |-> [options |-> {"1", "2", "3"}],
    gluc        |-> [options |-> {"1", "2", "3"}],
    smoke       |-> [options |-> {"0", "1"}],
    alco        |-> [options |-> {"0", "1"}],
    active      |-> [options |-> {"0", "1"}] ]

\* useForm defaultValues: the selects are preset, the numeric fields unset.
defaultValues ==
  [ age |-> << >>, height |-> << >>, weight |-> << >>,
    ap_hi |-> << >>, ap_lo |-> << >>,
    gender |-> "1", cholesterol |-> "1", gluc |-> "1",
    smoke |-> "0", alco |-> "0", active |-> "1" ]

\* Fault variant of NumberIssue: the upper bound is not checked.
NumberIssueNoMax(f, v) ==
  IF v = << >> THEN <<"Required">>
  ELSE IF v[1] < formSchema[f].min THEN <<formSchema[f].minMsg>>
  ELSE << >>

\* Fault variant of NumberIssue: the lower bound is exclusive.
NumberIssueExclusiveMin(f, v) ==
  IF v = << >> THEN <<"Required">>
  ELSE IF v[1] <= formSchema[f].min THEN <<formSchema[f].minMsg>>
  ELSE IF v[1] > formSchema[f].max THEN <<formSchema[f].maxMsg>>
  ELSE << >>

\* The issue zod raises for one field of the submitted values, << >> if none.
\* z.number(): undefined is "Required"; min and max are inclusive.
NumberIssue(f, v) ==
  IF v = << >> THEN <<"Required">>
  ELSE IF v[1] < formSchema[f].min THEN <<formSchema[f].minMsg>>
  ELSE IF v[1] > formSchema[f].max THEN <<formSchema[f].maxMsg>>
  ELSE << >>

EnumIssue(f, v) ==
  IF v \in formSchema[f].options THEN << >> ELSE <<"Invalid enum value">>

FieldIssue(f, v) ==
  IF f \in NumFields THEN NumberIssue(f, v) ELSE EnumIssue(f, v)

\* zodResolver(formSchema): the errors object, one message per failing field.
Validate(values) ==
  LET bad == {f \in Fields : FieldIssue(f, values[f]) # << >>}
  IN  [f \in bad |-> FieldIssue(f, values[f])[1]]

\* Input onChange: field.onChange(parseInt(e.target.value) || 0).
\* The typed text is << >> (empty, parseInt gives NaN) or <<n>>.
ParseIntOrZero(text) == IF text = << >> THEN 0 ELSE text[1]

\* ------------------------------------------------------------ typed inputs

\* What the user types and selects (scenario 1 of the specification).
Scenario1 ==
  [ age |-> <<9125>>, height |-> <<170>>, weight |-> <<70>>,
    ap_hi |-> <<120>>, ap_lo |-> <<80>>,
    gender |-> "1", cholesterol |-> "1", gluc |-> "1",
    smoke |-> "0", alco |-> "0", active |-> "1" ]

\* Scenario 3: the same with a systolic pressure of 300.
Scenario3 == [Scenario1 EXCEPT !.ap_hi = <<300>>]

TypedInputs == {Scenario1, Scenario3}

\* The values a numeric field is probed with: unset, and both sides of
\* both end points of its range.
Probes(f) ==
  { << >>, <<formSchema[f].min - 1>>, <<formSchema[f].min>>,
    <<formSchema[f].max>>, <<formSchema[f].max + 1>> }

\* Form states reachable by editing: every numeric field unset or an
\* integer, every select one of its items.
ProbeForms ==
  { [ age |-> a, height |-> h, weight |-> w, ap_hi |-> s, ap_lo |-> d,
      gender |-> g, cholesterol |-> c, gluc |-> "1",
      smoke |-> "0", alco |-> "0", active |-> "1" ] :
      a \in Probes("age"), h \in Probes("height"), w \in Probes("weight"),
      s \in Probes("ap_hi"), d \in Probes("ap_lo"),
      g \in formSchema.gender.options,
      c \in formSchema.cholesterol.options }

\* ------------------------------------------------------- predictor replies

\* PredictionResponse bodies; EmptyObject is the JSON text {}.
LowRisk == [prediction |-> <<0>>, probability |-> <<820>>]
HighRisk == [prediction |-> <<1>>, probability |-> <<655>>]
EmptyObject == [prediction |-> << >>, probability |-> << >>]

\* A Response: ok is response.ok, json says whether response.json() resolves.
Response(ok, status, json, body) ==
  [ok |-> ok, status |-> status, json |-> json, body |-> body]

NoResponse == Response(FALSE, 0, FALSE, EmptyObject)

Responses ==
  { Response(TRUE, 200, TRUE, LowRisk), Response(TRUE, 200, TRUE, HighRisk),
    Response(TRUE, 200, TRUE, EmptyObject),
    Response(TRUE, 200, FALSE, EmptyObject),
    Response(FALSE, 500, FALSE, EmptyObject) }

\* ---------------------------------------------------------- sessionStorage

\* The value of sessionStorage.getItem('cardio_history'): null (not
\* present), a text JSON.parse accepts (json, with the array it denotes), or
\* a text JSON.parse throws on.
StorageAbsent == [present |-> FALSE, json |-> FALSE, value |-> << >>]
StorageCorrupt == [present |-> TRUE, json |-> FALSE, value |-> << >>]

\* Time values: new Date() is a Date object, toISOString() its text.
DateObject(t) == [type |-> "Date", ms |-> t]
ISOString(t) == [type |-> "string", ms |-> t]

\* What JSON text can hold of a history entry: strings and numbers as they
\* are, a Date as its ISO text (Date.prototype.toJSON); a property whose
\* value is undefined is left out, and reads back as undefined.
ToJSON(entry) ==
  [entry EXCEPT !.timestamp = IF @.type = "Date" THEN ISOString(@.ms) ELSE @]

\* JSON.stringify(array)
JSONstringify(array) ==
  [present |-> TRUE, json |-> TRUE,
   value |-> [k \in 1..Len(array) |-> ToJSON(array[k])]]

\* JSON.parse(text) throws a SyntaxError unless the text is JSON.
JSONparseThrows(text) == ~text.json
JSONparse(text) == text.value

\* A history entry as onSubmit builds it.
\* Fault variant of NewEntry: the entry records the prediction state (the
\* value the handler's closure still holds) instead of the response's result.
NewEntryStaleResult(t, data, result) ==
  [id |-> t, timestamp |-> ISOString(t), data |-> data,
   result |-> IF prediction = << >> THEN EmptyObject ELSE prediction[1]]

\* id: Date.now().toString(); timestamp: new Date().toISOString().
NewEntry(t, data, result) ==
  [id |-> t, timestamp |-> ISOString(t), data |-> data, result |-> result]

\* The log a session that made n predictions before this page load left
\* behind, newest first; their ids are times before the page load.
PriorLog(n) == [i \in 1..n |-> NewEntry(-i, Scenario1, LowRisk)]

\* The item at page load: nothing, or what an earlier page load of the same
\* tab wrote (one entry short of the capacity).
InitialStorage == {StorageAbsent, JSONstringify(PriorLog(KeepLast - 1))}

\* ------------------------------------------------------------------ toasts

Toast(variant, title, message, risk, pct) ==
  [variant |-> variant, title |-> title, message |-> message,
   risk |-> risk, pct |-> pct]

NoToast == Toast("", "", "", "", << >>)

\* Math.round(probability * 100); NaN when probability is undefined.
RoundPercent(probability) ==
  IF probability = << >> THEN << >> ELSE <<(probability[1] + 5) \div 10>>

\* result.prediction === 1 ? 'High' : 'Low'
RiskLevel(result) == IF result.prediction = <<1>> THEN "High" ELSE "Low"

SuccessToast(result) ==
  Toast("default", "Prediction Complete", "Risk level",
        RiskLevel(result), RoundPercent(result.probability))

\* obj.name in JavaScript: undefined when the object has no such property.
Property(obj, name) == IF name \in DOMAIN obj THEN obj[name] ELSE << >>

\* The PredictionResult component, by what it renders of its prediction
\* prop: "{riskLevel} Risk" and "Confidence: {confidence}%", with
\* isHighRisk = prediction.prediction === 1 and
\* confidence = Math.round(prediction.confidence * 100).
PredictionResult(prop) ==
  [ riskLevel  |-> IF Property(prop, "prediction") = <<1>>
                     THEN "High" ELSE "Low",
    confidence |-> RoundPercent(Property(prop, "confidence")) ]

\* getRiskBadge(prediction, probability) of the history panel:
\* "High Risk ({confidence}%)" or "Low Risk ({confidence}%)".
getRiskBadge(predicted, probability) ==
  [ riskLevel  |-> IF predicted = <<1>> THEN "High" ELSE "Low",
    confidence |-> RoundPercent(probability) ]

\* error instanceof Error ? error.message : ...
ErrorToast(message) == Toast("destructive", "Error", message, "", << >>)

\* ------------------------------------------------------------ state frame

vars ==
  <<form, errors, prediction, isLoading, toast, toastCount, storage, history,
    mounted, crashed, now, inv, appended, storageEvents>>

\* One run of the async function handleSubmit(onSubmit): where it is
\* suspended (validating: awaiting the resolver; fetching: awaiting fetch;
\* parsing: awaiting response.json()), the values it was called with and the
\* Response it holds.
Invocation(pc, data, response) ==
  [pc |-> pc, data |-> data, response |-> response]

Idle == Invocation("idle", defaultValues, NoResponse)
Finished == Invocation("done", defaultValues, NoResponse)

Slots == 1..MaxSubmits

\* A request to the predictor is awaiting its outcome.
Pending(i) == inv[i].pc \in {"fetching", "parsing"}

\* The request body onSubmit sends: parseInt of every field.
RequestData(data) ==
  [f \in Fields |->
     IF f \in NumFields THEN data[f]
     ELSE <<CHOOSE n \in 0..3 : ToString(n) = data[f]>>]

Reverse(s) == [k \in 1..Len(s) |-> s[Len(s) + 1 - k]]

Init ==
  /\ form = defaultValues
  /\ errors = << >>
  /\ prediction = << >>
  /\ isLoading = FALSE
  /\ toast = NoToast
  /\ toastCount = 0
  /\ storage \in InitialStorage
  /\ history = << >>
  /\ mounted = FALSE
  /\ crashed = FALSE
  /\ now = 0
  /\ inv = [i \in Slots |-> Idle]
  /\ appended = Reverse(storage.value)
  /\ storageEvents = 0

\* ------------------------------------------------------- PredictionHistory

\* loadHistory: const stored = getItem(...); if (stored) setHistory(JSON.parse(stored))
LoadHistoryThrows(stored) == stored.present /\ JSONparseThrows(stored)
LoadHistory(stored, current) ==
  IF stored.present THEN JSONparse(stored) ELSE current

\* The window 'storage' listener is registered while the view is mounted.
Listening == mounted /\ ~crashed

\* The user can act on the page: it is rendered and was not torn down.
Interactive == mounted /\ ~crashed

\* useEffect(() => { loadHistory(); addEventListener('storage', ...) }, []).
\* An exception thrown by the effect is caught by no error boundary and
\* React unmounts the tree.
Mount ==
  /\ ~mounted
  /\ mounted' = TRUE
  /\ IF LoadHistoryThrows(storage)
       THEN crashed' = TRUE /\ history' = history
       ELSE crashed' = crashed /\ history' = LoadHistory(storage, history)
  /\ UNCHANGED <<form, errors, prediction, isLoading, toast, toastCount,
                 storage, now, inv, appended, storageEvents>>

\* Fault variant of ClearHistory: only the view is emptied, the persisted
\* item is left in place.
ClearHistoryViewOnly ==
  /\ Interactive
  /\ Len(history) > 0
  /\ history' = << >>
  /\ appended' = << >>
  /\ UNCHANGED <<form, errors, prediction, isLoading, toast, toastCount,
                 storage, mounted, crashed, now, inv, storageEvents>>

\* clearHistory; the Clear button is rendered only for a non-empty history.
ClearHistory ==
  /\ Interactive
  /\ Len(history) > 0
  /\ storage' = StorageAbsent
  /\ history' = << >>
  /\ appended' = << >>
  /\ UNCHANGED <<form, errors, prediction, isLoading, toast, toastCount,
                 mounted, crashed, now, inv, storageEvents>>

\* --------------------------------------------------------- CardiovascularForm

\* The user fills the form in: every numeric Input's onChange stores
\* parseInt(text) || 0, every Select's onValueChange stores the item's value.
FillForm(typed) ==
  /\ Interactive
  /\ form' = [f \in Fields |->
                IF f \in NumFields THEN <<ParseIntOrZero(typed[f])>>
                ELSE typed[f]]
  /\ UNCHANGED <<errors, prediction, isLoading, toast, toastCount, storage,
                 history, mounted, crashed, now, inv, appended, storageEvents>>

\* A submit event on the form: the submit Button is disabled={isLoading}.
\* handleSubmit starts the resolver on the current values and awaits it.
SubmitEvent ==
  /\ Interactive
  /\ ~isLoading
  /\ \E i \in Slots :
       /\ inv[i].pc = "idle"
       /\ \A j \in Slots : j < i => inv[j].pc # "idle"
       /\ inv' = [inv EXCEPT ![i] = Invocation("validating", form, NoResponse)]
  /\ UNCHANGED <<form, errors, prediction, isLoading, toast, toastCount,
                 storage, history, mounted, crashed, now, appended, storageEvents>>

\* The resolver settles.  With errors handleSubmit records them and stops;
\* without, it calls onSubmit(data), which runs up to its first await:
\* setIsLoading(true), then fetch(...) with the request body.
ValidationSettled(i) ==
  /\ inv[i].pc = "validating"
  /\ errors' = Validate(inv[i].data)
  /\ IF DOMAIN errors' = {}
       THEN /\ isLoading' = TRUE
            /\ inv' = [inv EXCEPT ![i].pc = "fetching"]
       ELSE /\ isLoading' = isLoading
            /\ inv' = [inv EXCEPT ![i] = Finished]
  /\ UNCHANGED <<form, prediction, toast, toastCount, storage, history,
                 mounted, crashed, now, appended, storageEvents>>

\* Fault variant of CatchFinally: the error is swallowed without a toast.
CatchFinallySilent(i, message) ==
  /\ toast' = toast
  /\ toastCount' = toastCount
  /\ isLoading' = FALSE
  /\ inv' = [inv EXCEPT ![i] = Finished]

\* Fault variant of CatchFinally: no finally block, the flag is not reset.
CatchFinallyNoReset(i, message) ==
  /\ toast' = ErrorToast(message)
  /\ toastCount' = toastCount + 1
  /\ isLoading' = isLoading
  /\ inv' = [inv EXCEPT ![i] = Finished]

\* catch (error) { toast(Error) } finally { setIsLoading(false) }, for an
\* exception thrown before setPrediction.
CatchFinally(i, message) ==
  /\ toast' = ErrorToast(message)
  /\ toastCount' = toastCount + 1
  /\ isLoading' = FALSE
  /\ inv' = [inv EXCEPT ![i] = Finished]

\* fetch rejects (the network is unreachable).
FetchRejected(i) ==
  /\ inv[i].pc = "fetching"
  /\ CatchFinally(i, "Failed to fetch")
  /\ UNCHANGED <<form, errors, prediction, storage, history, mounted,
                 crashed, now, appended, storageEvents>>

\* fetch resolves with a Response: if (!response.ok) throw new Error(...),
\* else await response.json().
FetchResolved(i, response) ==
  /\ inv[i].pc = "fetching"
  /\ IF ~response.ok
       THEN CatchFinally(i, "HTTP error! status: " \o ToString(response.status))
       ELSE /\ inv' = [inv EXCEPT ![i].pc = "parsing",
                                  ![i].response = response]
            /\ UNCHANGED <<toast, toastCount, isLoading>>
  /\ UNCHANGED <<form, errors, prediction, storage, history, mounted,
                 crashed, now, appended, storageEvents>>

\* Fault variant of KeptHistory: slice(0, 11), one entry too many is kept.
KeptHistoryOffByOne(log, newEntry) ==
  Slice0(Unshift(log, newEntry), KeepLast + 1)

\* Fault variant of KeptHistory: slice(-10), the newest entry is the one
\* dropped from a full log.
KeptHistoryNewestDropped(log, newEntry) ==
  LET all == Unshift(log, newEntry)
  IN  SubSeq(all, Len(all) - Min2(Len(all), KeepLast) + 1, Len(all))

\* history.unshift(newEntry); history.slice(0, 10)
KeptHistory(log, newEntry) == Slice0(Unshift(log, newEntry), KeepLast)

\* sessionStorage.getItem('cardio_history') || '[]'
StoredOrEmpty(stored) ==
  IF stored.present THEN stored ELSE JSONstringify(<< >>)

\* Fault variant of DispatchStorageEvent: the event is dispatched before
\* setItem, so the listener reads the item as it was.
DispatchedBeforeSetItem(stored, current) ==
  IF Listening THEN LoadHistory(storage, current) ELSE current

\* window.dispatchEvent(new Event('storage')): the listener, if registered,
\* runs loadHistory on the item as it is now; the view it leaves.
DispatchStorageEvent(stored, current) ==
  IF Listening THEN LoadHistory(stored, current) ELSE current

\* response.json() settles.  If it rejects: catch and finally.  Otherwise
\* the rest of the try block runs: setPrediction(result), the history is
\* read, extended, cut and written back, the 'storage' event is dispatched
\* (its listener, if registered, reloads the view) and the success toast
\* is shown; a throwing JSON.parse of the stored text goes to catch.
JsonSettled(i) ==
  LET response == inv[i].response
      result   == response.body
      stored   == StoredOrEmpty(storage)
      newEntry == NewEntry(now, inv[i].data, result)
      kept     == KeptHistory(JSONparse(stored), newEntry)
  IN
  /\ inv[i].pc = "parsing"
  /\ IF ~response.json
       THEN /\ CatchFinally(i, "Unexpected token")
            /\ UNCHANGED <<prediction, storage, history, appended,
                           storageEvents>>
       ELSE /\ prediction' = <<result>>
            /\ IF JSONparseThrows(stored)
                 THEN /\ CatchFinally(i, "Unexpected token")
                      /\ UNCHANGED <<storage, history, appended,
                                     storageEvents>>
                 ELSE /\ storage' = JSONstringify(kept)
                      /\ appended' = Append(appended, newEntry)
                      /\ storageEvents' = storageEvents + 1
                      /\ history' = DispatchStorageEvent(storage', history)
                      /\ toast' = SuccessToast(result)
                      /\ toastCount' = toastCount + 1
                      /\ isLoading' = FALSE
                      /\ inv' = [inv EXCEPT ![i] = Finished]
  /\ UNCHANGED <<form, errors, mounted, crashed, now>>

\* ------------------------------------------------------------- environment

\* The clock advances.
Tick ==
  /\ now < MaxTime
  /\ now' = now + 1
  /\ UNCHANGED <<form, errors, prediction, isLoading, toast, toastCount,
                 storage, history, mounted, crashed, inv, appended, storageEvents>>

\* Another script of the page's origin overwrites the sessionStorage item
\* with a text that is not JSON.
ExternalWrite ==
  /\ storage # StorageCorrupt
  /\ storage' = StorageCorrupt
  /\ UNCHANGED <<form, errors, prediction, isLoading, toast, toastCount,
                 history, mounted, crashed, now, inv, appended, storageEvents>>

\* ----------------------------------------------------------- specification

Next ==
  \/ Mount
  \/ ClearHistory
  \/ \E typed \in TypedInputs : FillForm(typed)
  \/ SubmitEvent
  \/ \E i \in Slots : ValidationSettled(i)
  \/ \E i \in Slots : FetchRejected(i)
  \/ \E i \in Slots, response \in Responses : FetchResolved(i, response)
  \/ \E i \in Slots : JsonSettled(i)
  \/ Tick
  \/ ExternalWrite

Spec == Init /\ [][Next]_vars

\* The requests eventually settle: fetch resolves or rejects, and
\* response.json() resolves or rejects.
FetchSettles ==
  \E i \in Slots :
    FetchRejected(i) \/ \E response \in Responses : FetchResolved(i, response)

FairSpec ==
  /\ Spec
  /\ WF_vars(FetchSettles)
  /\ WF_vars(\E i \in Slots : JsonSettled(i))

\* Validation alone, over every probed form state: the page is mounted on
\* an empty storage and the form holds any of the probe values.
InitProbe ==
  /\ form \in ProbeForms
  /\ errors = << >>
  /\ prediction = << >>
  /\ isLoading = FALSE
  /\ toast = NoToast
  /\ toastCount = 0
  /\ storage = StorageAbsent
  /\ history = << >>
  /\ mounted = TRUE
  /\ crashed = FALSE
  /\ now = 0
  /\ inv = [i \in Slots |-> Idle]
  /\ appended = << >>
  /\ storageEvents = 0

NextProbe ==
  \/ SubmitEvent
  \/ \E i \in Slots : ValidationSettled(i)

SpecValidate == InitProbe /\ [][NextProbe]_vars

\* ------------------------------------------------- the specification's terms

\* The constraint table of the data model, on the form's values: numeric
\* fields are set and within their inclusive range, the others hold a
\* declared member (male/female are the items "1"/"2", and so on).
Violates(f, v) ==
  CASE f = "age"         -> v = << >> \/ v[1] < 1 \/ v[1] > 50000
    [] f = "height"      -> v = << >> \/ v[1] < 50 \/ v[1] > 250
    [] f = "weight"      -> v = << >> \/ v[1] < 10 \/ v[1] > 300
    [] f = "ap_hi"       -> v = << >> \/ v[1] < 70 \/ v[1] > 250
    [] f = "ap_lo"       -> v = << >> \/ v[1] < 40 \/ v[1] > 150
    [] f = "gender"      -> v \notin {"1", "2"}
    [] f = "cholesterol" -> v \notin {"1", "2", "3"}
    [] f = "gluc"        -> v \notin {"1", "2", "3"}
    [] f = "smoke"       -> v \notin {"0", "1"}
    [] f = "alco"        -> v \notin {"0", "1"}
    [] f = "active"      -> v \notin {"0", "1"}

ViolatedFields(values) == {f \in Fields : Violates(f, values[f])}

\* The predictor's request contract: the integer codes a request may carry.
WireRange(f) ==
  CASE f = "age"         -> 1..50000
    [] f = "height"      -> 50..250
    [] f = "weight"      -> 10..300
    [] f = "ap_hi"       -> 70..250
    [] f = "ap_lo"       -> 40..150
    [] f = "gender"      -> {1, 2}
    [] f \in {"cholesterol", "gluc"} -> {1, 2, 3}
    [] f \in {"smoke", "alco", "active"} -> {0, 1}

\* A response body of the shape { prediction: 0|1, probability: number }.
WellShaped(response) ==
  /\ response.json
  /\ response.body.prediction \in {<<0>>, <<1>>}
  /\ response.body.probability # << >>

\* The first n elements of s.
FirstN(s, n) == [k \in 1..(IF Len(s) < n THEN Len(s) ELSE n) |-> s[k]]

InFlight == {i \in Slots : Pending(i)}

\* ------------------------------------------------------------------ claims

\* C1: at most one prediction request is in flight at any time.
C1_AtMostOneInFlight == Cardinality(InFlight) <= 1

\* C2: the history log, as persisted and as the view holds it, has at most
\* 10 entries in every reachable state.
C2_HistoryBounded ==
  /\ Len(storage.value) <= 10
  /\ Len(history) <= 10

\* C2 witness: the log is full and an older entry has been evicted.
C2_Witness ==
  /\ storage.json
  /\ Len(storage.value) = 10
  /\ Len(history) = 10
  /\ Len(appended) > 10

\* C3: every step that writes the log writes the first 10 elements of the
\* new entry followed by the log it read (the new entry at the head, the
\* older ones unchanged and in order, only the oldest past position 10
\* dropped); so the log always holds the min(n,10) most recently appended
\* entries, newest first.
C3_AppendPrependsAndTruncates ==
  [][ /\ (storage' # storage /\ storage'.json) =>
           /\ ~JSONparseThrows(StoredOrEmpty(storage))
           /\ Len(storage'.value) >= 1
           /\ Len(appended') = Len(appended) + 1
           /\ Head(storage'.value) = appended'[Len(appended')]
           /\ storage'.value =
                FirstN(<<Head(storage'.value)>> \o storage.value, 10)
      /\ storage'.json => storage'.value = FirstN(Reverse(appended'), 10)
    ]_vars

\* C3 witness: eleven entries were appended and the log holds the last ten.
C3_Witness ==
  /\ Len(appended) = 11
  /\ storage.json
  /\ Len(storage.value) = 10
  /\ storage.value[10] = appended[2]
  /\ storage.value[1] = appended[11]

\* C4: when a request fails by network error or non-success status (the
\* invocation leaves fetch for the end), the persisted log, the view and the
\* current result are unchanged, exactly one error notification is emitted
\* and the in-flight flag is false afterwards.
C4_FailureLeavesStateAlone ==
  [][ \A i \in Slots :
        (inv[i].pc = "fetching" /\ inv'[i].pc = "done") =>
          /\ storage' = storage
          /\ history' = history
          /\ prediction' = prediction
          /\ toastCount' = toastCount + 1
          /\ toast'.variant = "destructive"
          /\ toast'.title = "Error"
          /\ isLoading' = FALSE
    ]_vars

\* C4 witness: a request failed after an earlier one had succeeded; the
\* earlier result is still displayed.
C4_Witness ==
  /\ toast.variant = "destructive"
  /\ toast.message \in {"Failed to fetch", "HTTP error! status: 500"}
  /\ prediction = <<LowRisk>>
  /\ Len(appended) = 1
  /\ ~isLoading

\* C5: a success-status response whose body is not of the shape
\* { prediction: 0|1, probability: number } is a submission failure: the
\* current result is not replaced, nothing is appended and an error
\* notification is emitted.
C5_MalformedBodyIsFailure ==
  [][ \A i \in Slots :
        ( /\ inv[i].pc = "parsing"
          /\ ~WellShaped(inv[i].response)
          /\ inv'[i].pc = "done" ) =>
          /\ prediction' = prediction
          /\ storage' = storage
          /\ toastCount' = toastCount + 1
          /\ toast'.variant = "destructive"
    ]_vars

\* C6: when the persisted history is absent or unparsable every reader
\* treats the log as empty: Load leaves the view with an empty log and
\* raises no error, and a successful response still appends its entry, as
\* the sole entry, with no error notification.
C6_BadStorageReadAsEmpty ==
  [][ /\ (~mounted /\ mounted' /\ JSONparseThrows(StoredOrEmpty(storage))) =>
           (~crashed' /\ history' = << >>)
      /\ (~mounted /\ mounted' /\ ~storage.present) =>
           (~crashed' /\ history' = << >>)
      /\ \A i \in Slots :
           ( /\ inv[i].pc = "parsing"
             /\ WellShaped(inv[i].response)
             /\ inv'[i].pc = "done"
             /\ (~storage.present \/ JSONparseThrows(storage)) ) =>
             /\ storage'.json
             /\ Len(storage'.value) = 1
             /\ storage'.value[1].result = inv[i].response.body
             /\ toast'.variant # "destructive"
    ]_vars

\* C7: a Submit whose input fails validation has no side effects (no
\* request, log, view, result and in-flight flag unchanged, the flag false
\* unless another request is pending) and reports every violated field;
\* every request sent carries an input whose every field satisfies its
\* constraint.
C7_InvalidSubmitHasNoEffect ==
  [][ /\ \A i \in Slots :
           ( /\ inv[i].pc = "validating"
             /\ inv'[i].pc # "validating"
             /\ ViolatedFields(inv[i].data) # {} ) =>
             /\ inv'[i].pc = "done"
             /\ InFlight' = InFlight
             /\ storage' = storage
             /\ history' = history
             /\ prediction' = prediction
             /\ toastCount' = toastCount
             /\ isLoading' = isLoading
             /\ (InFlight = {} => ~isLoading')
             /\ ViolatedFields(inv[i].data) \subseteq DOMAIN errors'
      /\ \A i \in Slots :
           Pending(i)' =>
             \A f \in Fields :
               /\ Len(RequestData(inv'[i].data)[f]) = 1
               /\ RequestData(inv'[i].data)[f][1] \in WireRange(f)
    ]_vars

\* C7 witness: a submit with systolicBP = 300 was refused with an error on
\* that field, and nothing else happened.
C7_Witness ==
  /\ inv[1].pc = "done"
  /\ DOMAIN errors = {"ap_hi"}
  /\ InFlight = {}
  /\ toastCount = 0
  /\ prediction = << >>
  /\ ~isLoading
  /\ storage = StorageAbsent

\* C8: Validate rejects iff some field violates its constraint, and the
\* fields in error are exactly the violated ones (ranges inclusive, unset
\* numeric fields rejected).
C8_ValidateExact ==
  \A i \in Slots :
    inv[i].pc \in {"fetching", "done"} =>
      /\ DOMAIN errors = ViolatedFields(form)
      /\ (inv[i].pc = "fetching") <=> (ViolatedFields(form) = {})

\* C8 witness: two fields just outside their ranges, both reported at once,
\* every other field on an end point of its range.
C8_Witness ==
  /\ inv[1].pc = "done"
  /\ form.age = <<50001>>
  /\ form.ap_hi = <<69>>
  /\ form.height = <<50>>
  /\ form.weight = <<300>>
  /\ form.ap_lo = <<150>>
  /\ DOMAIN errors = {"age", "ap_hi"}

\* C9: each valid Submit issues exactly one request, and each successful
\* response makes the returned outcome the current result and appends
\* exactly one entry, at the head of the log, holding the submitted input
\* and that outcome.
C9_SuccessRecordsOutcome ==
  [][ /\ \A i \in Slots :
           ( /\ inv[i].pc = "validating"
             /\ inv'[i].pc # "validating"
             /\ ViolatedFields(inv[i].data) = {} ) =>
             InFlight' = InFlight \cup {i}
      /\ \A i \in Slots :
           ( /\ inv[i].pc = "parsing"
             /\ WellShaped(inv[i].response)
             /\ inv'[i].pc = "done" ) =>
             /\ prediction' = <<inv[i].response.body>>
             /\ storage'.json
             /\ Len(appended') = Len(appended) + 1
             /\ Len(storage'.value) >= 1
             /\ storage'.value[1].data = inv[i].data
             /\ storage'.value[1].result = inv[i].response.body
    ]_vars

\* C10: the in-flight flag is true only while a request is pending, it is
\* set when a request is issued and cleared when one settles, in every
\* case; if requests eventually settle, a true flag eventually turns false.
C10_FlagAlwaysCleared ==
  /\ [](isLoading => InFlight # {})
  /\ [][ \A i \in Slots :
           /\ (~Pending(i) /\ Pending(i)') => isLoading'
           /\ (Pending(i) /\ inv'[i].pc = "done") => ~isLoading' ]_vars
  /\ (isLoading ~> ~isLoading)

\* C10 witness: recording the history failed on the stored text after the
\* result had been set, and the flag is false again.
C10_Witness ==
  /\ storage = StorageCorrupt
  /\ toast.variant = "destructive"
  /\ toast.message = "Unexpected token"
  /\ prediction = <<HighRisk>>
  /\ appended = << >>
  /\ inv[1].pc = "done"
  /\ ~isLoading

\* C11: no two entries of the persisted log have the same id.
C11_IdsUnique ==
  \A j, k \in 1..Len(storage.value) :
    storage.value[j].id = storage.value[k].id => j = k

\* A step in which Clear acted: the view's log is emptied or the persisted
\* item is removed.
ClearStep ==
  \/ Len(history) > 0 /\ history' = << >>
  \/ storage.present /\ ~storage'.present

\* C12 (as stated): Clear empties the in-memory log, removes the persisted
\* representation and raises a change notification; a Load after it yields
\* an empty log.
C12_ClearNotifies ==
  [][ ClearStep =>
        /\ history' = << >>
        /\ storage' = StorageAbsent
        /\ storageEvents' = storageEvents + 1
        /\ ~LoadHistoryThrows(storage')
        /\ LoadHistory(storage', << >>) = << >>
    ]_vars

\* C12 (amended): Clear empties the in-memory log and removes the persisted
\* representation without raising a change notification; a Load after it
\* yields an empty log.
C12_ClearEmptiesSilently ==
  [][ ClearStep =>
        /\ history' = << >>
        /\ storage' = StorageAbsent
        /\ storageEvents' = storageEvents
        /\ ~LoadHistoryThrows(storage')
        /\ LoadHistory(storage', << >>) = << >>
    ]_vars

\* C12 witness: an entry was appended and the log was then cleared.
C12_Witness ==
  /\ storageEvents = 1
  /\ appended = << >>
  /\ storage = StorageAbsent
  /\ history = << >>
  /\ mounted
  /\ prediction # << >>

\* {prediction && <PredictionResult prediction={prediction} />}: what the
\* result display shows, << >> when it is not rendered.
Displayed ==
  IF prediction = << >> THEN << >> ELSE <<PredictionResult(prediction[1])>>

\* C13: for a current result { prediction: p, probability: q } the result
\* display shows 'High' iff p = 1, 'Low' otherwise, and the confidence q
\* rounded to the nearest percent (0 and 0.82 give Low, 82), the values the
\* history entry of that outcome is shown with.
C13_DisplayShowsOutcome ==
  (prediction # << >> /\ WellShaped(Response(TRUE, 200, TRUE, prediction[1]))) =>
    /\ Displayed[1].riskLevel =
         (IF prediction[1].prediction = <<1>> THEN "High" ELSE "Low")
    /\ Displayed[1].confidence =
         <<(prediction[1].probability[1] + 5) \div 10>>
    /\ prediction[1] = LowRisk =>
         Displayed[1] = [riskLevel |-> "Low", confidence |-> <<82>>]
    /\ \A k \in 1..Len(storage.value) :
         storage.value[k].result = prediction[1] =>
           Displayed[1] = getRiskBadge(storage.value[k].result.prediction,
                                       storage.value[k].result.probability)

\* C14: every Append persists the truncated log before it raises the change
\* notification, so the mounted view's log equals the persisted log, and a
\* fresh Load from storage reproduces the entries as they were appended
\* (ids, order, timestamps, inputs, outcomes).
C14_ViewAgreesWithStorage ==
  [][ /\ (storage' # storage /\ storage'.json) =>
           /\ storageEvents' = storageEvents + 1
           /\ history' = JSONparse(storage')
           /\ ~LoadHistoryThrows(storage')
           /\ LoadHistory(storage', << >>) = FirstN(Reverse(appended'), 10)
      /\ (Listening' /\ storage'.json) => history' = JSONparse(storage')
    ]_vars

\* C14 witness: two entries were appended in this page load and the view
\* shows the persisted log, newest first.
C14_Witness ==
  /\ storageEvents = 2
  /\ storage.json
  /\ Len(storage.value) = 2
  /\ history = storage.value
  /\ history[1] = appended[2]
  /\ history[2] = appended[1]
  /\ history[1].result # history[2].result

\* No invocation of the submit handler is under way.
NoSubmitHandled == \A i \in Slots : inv[i].pc \in {"idle", "done"}

\* C15: whenever no Submit is being handled, the current result is set and
\* the persisted log is non-empty, the outcome in the log's head entry is
\* the current result.
C15_HeadIsCurrentResult ==
  ( /\ NoSubmitHandled
    /\ prediction # << >>
    /\ storage.json
    /\ Len(storage.value) > 0 ) =>
    storage.value[1].result = prediction[1]

\* C15 witness: a high-risk outcome followed a low-risk one and then a
\* request failed; the head entry and the displayed result are the high-risk
\* outcome.
C15_Witness ==
  /\ NoSubmitHandled
  /\ inv[MaxSubmits].pc = "done"
  /\ prediction = <<HighRisk>>
  /\ storage.json
  /\ Len(storage.value) = KeepLast
  /\ storage.value[1].result = HighRisk
  /\ storage.value[2].result = LowRisk
  /\ storageEvents = 1
  /\ toast.variant = "destructive"

====
